---- MODULE Spec2Model ----
(***************************************************************************)
(* A model of the serial <-> TCP relay of tinet-bridge.py: the coordinator *)
(* (main), the Serial Channel thread (SerialThread) and the Socket Channel *)
(* thread (SocketThread), their write locks, their alive flags, their peer *)
(* references and the two media (the serial port and the TCP socket).      *)
(*                                                                         *)
(* Bytes are modelled as short strings ("a", "/", "0", NUL, and the two    *)
(* bytes xC3 xA9 of one two-byte UTF-8 character); a frame is a sequence   *)
(* of bytes and a text is a sequence of characters.                        *)
(***************************************************************************)
EXTENDS Naturals, Sequences, FiniteSets

\* ------------------------------------------------------------------ bounds

\* Socket reads that return data, over a run.
MaxRecv == 2
\* Serial reads that return data, over a run.
MaxSerialReads == 1
\* Serial reads that raise (the device is unplugged), over a run.
MaxFail == 1
\* stop() calls made by an outside caller (SpecStop only).
MaxStopCalls == 2
\* Longest serial payload, in characters (StripSpec only).
MaxLen == 2

\* ----------------------------------------------------------- configuration

ENABLE_RECONNECT == TRUE

\* ------------------------------------------------------------------- bytes

NUL == "NUL"
xC3 == "xC3"
xA9 == "xA9"
\* The one non-ASCII character of the model; its UTF-8 encoding is xC3 xA9.
EAcute == "e'"

AsciiChars == {"a", "/", "0", NUL}
Chars == AsciiChars \cup {EAcute}
Bytes == AsciiChars \cup {xC3, xA9}

bridgeConnected0 ==
    <<"b","r","i","d","g","e","C","o","n","n","e","c","t","e","d",NUL>>
internetDisconnected ==
    <<"i","n","t","e","r","n","e","t","D","i","s","c","o","n","n","e","c","t","e","d">>
DISCONNECT == <<"D","I","S","C","O","N","N","E","C","T">>
world == <<"w","o","r","l","d">>
cafe == <<"c","a","f",xC3,xA9>>
\* A frame that is no valid UTF-8: a lone continuation byte.
badUtf8 == <<"w",xA9>>

\* bytes.decode(): strict UTF-8. DecodeOk says whether it returns; Decode is
\* the text it returns.
RECURSIVE DecodeOk(_)
DecodeOk(b) ==
    IF b = <<>> THEN TRUE
    ELSE IF Head(b) = xC3
         THEN Len(b) >= 2 /\ b[2] = xA9 /\ DecodeOk(SubSeq(b, 3, Len(b)))
         ELSE Head(b) # xA9 /\ DecodeOk(Tail(b))

RECURSIVE Decode(_)
Decode(b) ==
    IF b = <<>> THEN <<>>
    ELSE IF Head(b) = xC3
         THEN <<EAcute>> \o Decode(SubSeq(b, 3, Len(b)))
         ELSE <<Head(b)>> \o Decode(Tail(b))

\* str.encode(): UTF-8.
RECURSIVE Encode(_)
Encode(s) ==
    IF s = <<>> THEN <<>>
    ELSE (IF Head(s) = EAcute THEN <<xC3, xA9>> ELSE <<Head(s)>>) \o Encode(Tail(s))

\* str.replace(pat, ""): every non-overlapping occurrence, leftmost first.
RECURSIVE Remove(_, _)
Remove(s, pat) ==
    IF Len(s) < Len(pat) THEN s
    ELSE IF SubSeq(s, 1, Len(pat)) = pat
         THEN Remove(SubSeq(s, Len(pat) + 1, Len(s)), pat)
         ELSE <<Head(s)>> \o Remove(Tail(s), pat)

\* A strip that forgets the null terminator.
StripNoNul(s) == Remove(s, <<"/", "0">>)

\* decoded_data = data.decode().replace("/0", "").replace("\0", "")
Strip(s) == Remove(Remove(s, <<"/", "0">>), <<NUL>>)

RECURSIVE SeqsUpTo(_, _)
SeqsUpTo(S, n) ==
    IF n = 0 THEN {<<>>}
    ELSE LET shorter == SeqsUpTo(S, n - 1)
         IN shorter \cup {Append(s, x) : s \in {t \in shorter : Len(t) = n - 1}, x \in S}

Count(seq, x) == Cardinality({i \in 1..Len(seq) : seq[i] = x})

\* ------------------------------------------------------------------- state

Threads == {"ser", "sock", "ext"}

VARIABLES
    mainPc,          \* where main() is
    pc,              \* where each thread is ("ext" is an outside caller of stop())
    wr,              \* each thread's write() call in progress
    serial_manager,  \* socket_thread.serial_manager: "None" or "set"
    socket_manager,  \* serial_thread.socket_manager: "None" or "set"
    sockAlive,       \* socket_thread.alive
    serAlive,        \* serial_thread.alive
    sock,            \* socket_thread.socket: "None", "created", "connected", "closed"
    port,            \* serial_thread.serial: "none", "open", "failed"
    device,          \* whether the calculator is plugged in (discoverable)
    serLock,         \* serial_thread._lock: "free" or its holder
    sockLock,        \* socket_thread._lock: "free" or its holder
    data,            \* SerialThread.run's data
    server_response, \* SocketThread.run's server_response
    serialWire,      \* frames written to the serial port, in order
    socketWire,      \* frames sent on the socket, in order
    serialBy,        \* per frame of serialWire: the thread that wrote it
    recvLog,         \* non-empty frames socket.recv returned, in order
    fwdLog,          \* frames SocketThread.run passed to serial_manager.write
    nSerialReads,    \* serial reads that returned data
    nFail,           \* serial reads that raised
    sockEnd,         \* what ended the socket session: "none", "empty", "error", "DISCONNECT"
    sockStops,       \* SocketThread.stop() calls begun
    serStops,        \* SerialThread.stop() calls begun
    stopRaised,      \* a stop() call that was not the channel's first raised
    skipped,         \* socket frames not forwarded because serial_manager.alive was false
    stopNo,          \* per caller: which SocketThread.stop() call it is in (0: none)
    extCalls         \* stop() calls the outside caller made

vars == <<mainPc, pc, wr, serial_manager, socket_manager, sockAlive, serAlive,
          sock, port, device, serLock, sockLock, data, server_response,
          serialWire, socketWire, serialBy, recvLog, fwdLog, nSerialReads, nFail,
          sockEnd, sockStops, serStops, stopRaised, skipped, stopNo, extCalls>>

mainVars == <<mainPc>>
peerVars == <<serial_manager, socket_manager>>
aliveVars == <<sockAlive, serAlive>>
mediaVars == <<sock, port, device>>
lockVars == <<serLock, sockLock>>
wireVars == <<serialWire, socketWire, serialBy>>
localVars == <<data, server_response>>
sockLogVars == <<recvLog, fwdLog, sockEnd, skipped>>
serLogVars == <<nSerialReads, nFail>>
stopVars == <<sockStops, serStops, stopRaised, stopNo, extCalls>>

NoWrite == [chan |-> "none", frame |-> <<>>, stage |-> "idle",
            ok |-> "", err |-> "", aliveAtCall |-> TRUE]

Terminated(t) == pc[t] \in {"done", "crashed"}

\* ------------------------------------------------------------------- Init

\* main() has found the serial port (line 308) and is about to construct the
\* two channel objects (line 323).
Init ==
    /\ mainPc = "new_socket_thread"
    /\ pc = [t \in Threads |-> IF t = "ext" THEN "idle" ELSE "unstarted"]
    /\ wr = [t \in Threads |-> NoWrite]
    /\ serial_manager = "None"
    /\ socket_manager = "None"
    /\ sockAlive = FALSE
    /\ serAlive = FALSE
    /\ sock = "None"
    /\ port = "none"
    /\ device = TRUE
    /\ serLock = "free"
    /\ sockLock = "free"
    /\ data = <<>>
    /\ server_response = <<>>
    /\ serialWire = <<>>
    /\ socketWire = <<>>
    /\ serialBy = <<>>
    /\ recvLog = <<>>
    /\ fwdLog = <<>>
    /\ nSerialReads = 0
    /\ nFail = 0
    /\ sockEnd = "none"
    /\ sockStops = 0
    /\ serStops = 0
    /\ stopRaised = FALSE
    /\ skipped = 0
    /\ stopNo = [t \in Threads |-> 0]
    /\ extCalls = 0

\* ------------------------------------------------------------------- main

\* socket_thread = SocketThread()
MainNewSocketThread ==
    /\ mainPc = "new_socket_thread"
    /\ mainPc' = "new_serial_thread"
    /\ sockAlive' = FALSE
    /\ sock' = "None"
    /\ serial_manager' = "None"
    /\ sockLock' = "free"
    /\ UNCHANGED <<pc, wr, socket_manager, serAlive, port, device, serLock,
                   localVars, wireVars, sockLogVars, serLogVars, stopVars>>

\* serial_thread = SerialThread(selected_port.device)
MainNewSerialThread ==
    /\ mainPc = "new_serial_thread"
    /\ mainPc' = "set_serial_manager"
    /\ port' = "open"
    /\ socket_manager' = "None"
    /\ serAlive' = TRUE
    /\ serLock' = "free"
    /\ UNCHANGED <<pc, wr, serial_manager, sockAlive, sock, device, sockLock,
                   localVars, wireVars, sockLogVars, serLogVars, stopVars>>

\* socket_thread.serial_manager = serial_thread
MainSetSerialManager ==
    /\ mainPc = "set_serial_manager"
    /\ mainPc' = "set_socket_manager"
    /\ serial_manager' = "set"
    /\ UNCHANGED <<pc, wr, socket_manager, aliveVars, mediaVars, lockVars,
                   localVars, wireVars, sockLogVars, serLogVars, stopVars>>

\* A coordinator that forgets to wire the Serial Channel's peer.
MainSetSocketManagerForgotten ==
    /\ mainPc = "set_socket_manager"
    /\ mainPc' = "start_serial"
    /\ UNCHANGED <<pc, wr, peerVars, aliveVars, mediaVars, lockVars,
                   localVars, wireVars, sockLogVars, serLogVars, stopVars>>

\* serial_thread.socket_manager = socket_thread
MainSetSocketManager ==
    /\ mainPc = "set_socket_manager"
    /\ mainPc' = "start_serial"
    /\ socket_manager' = "set"
    /\ UNCHANGED <<pc, wr, serial_manager, aliveVars, mediaVars, lockVars,
                   localVars, wireVars, sockLogVars, serLogVars, stopVars>>

\* serial_thread.start()
MainStartSerial ==
    /\ mainPc = "start_serial"
    /\ mainPc' = "start_socket"
    /\ pc' = [pc EXCEPT !["ser"] = "loop"]
    /\ UNCHANGED <<wr, peerVars, aliveVars, mediaVars, lockVars,
                   localVars, wireVars, sockLogVars, serLogVars, stopVars>>

\* socket_thread.start()
MainStartSocket ==
    /\ mainPc = "start_socket"
    /\ mainPc' = "join_serial"
    /\ pc' = [pc EXCEPT !["sock"] = "wait_peer"]
    /\ UNCHANGED <<wr, peerVars, aliveVars, mediaVars, lockVars,
                   localVars, wireVars, sockLogVars, serLogVars, stopVars>>

\* serial_thread.join()
MainJoinSerial ==
    /\ mainPc = "join_serial"
    /\ Terminated("ser")
    /\ mainPc' = "join_socket"
    /\ UNCHANGED <<pc, wr, peerVars, aliveVars, mediaVars, lockVars,
                   localVars, wireVars, sockLogVars, serLogVars, stopVars>>

\* socket_thread.join(); sys.exit(0)
MainJoinSocket ==
    /\ mainPc = "join_socket"
    /\ Terminated("sock")
    /\ mainPc' = "exited"
    /\ UNCHANGED <<pc, wr, peerVars, aliveVars, mediaVars, lockVars,
                   localVars, wireVars, sockLogVars, serLogVars, stopVars>>

Main ==
    \/ MainNewSocketThread
    \/ MainNewSerialThread
    \/ MainSetSerialManager
    \/ MainSetSocketManager
    \/ MainStartSerial
    \/ MainStartSocket
    \/ MainJoinSerial
    \/ MainJoinSocket

\* ------------------------------------------------------------------ write()

\* A thread calls write(frame) of channel c; it goes on at okPc when the write
\* returns and at errPc when it raises.
Call(t, c, frame, okPc, errPc) ==
    /\ wr' = [wr EXCEPT ![t] =
                [chan |-> c, frame |-> frame, stage |-> "want",
                 ok |-> okPc, err |-> errPc,
                 aliveAtCall |-> IF c = "serial" THEN serAlive ELSE sockAlive]]
    /\ pc' = [pc EXCEPT ![t] = "write"]

\* A write lock that excludes nobody.
LockAvailableAlways(lock) == TRUE

\* with self._lock: the lock can be taken when nobody holds it.
LockAvailable(lock) == lock = "free"

\* SerialThread.write, "with self._lock:"
SerialWriteEnter(t) ==
    /\ pc[t] = "write"
    /\ wr[t].chan = "serial"
    /\ wr[t].stage = "want"
    /\ LockAvailable(serLock)
    /\ serLock' = t
    /\ wr' = [wr EXCEPT ![t].stage = "in"]
    /\ UNCHANGED <<mainVars, pc, peerVars, aliveVars, mediaVars, sockLock,
                   localVars, wireVars, sockLogVars, serLogVars, stopVars>>

\* A serial write that returns without releasing the lock.
SerialWriteSendKeepsLock(t) ==
    /\ pc[t] = "write"
    /\ wr[t].chan = "serial"
    /\ wr[t].stage = "in"
    /\ IF port = "open"
       THEN /\ serialWire' = Append(serialWire, wr[t].frame)
            /\ serialBy' = Append(serialBy, t)
            /\ pc' = [pc EXCEPT ![t] = wr[t].ok]
       ELSE /\ serialWire' = serialWire
            /\ serialBy' = serialBy
            /\ pc' = [pc EXCEPT ![t] = wr[t].err]
    /\ serLock' = serLock
    /\ wr' = [wr EXCEPT ![t] = NoWrite]
    /\ UNCHANGED <<mainVars, peerVars, aliveVars, mediaVars, sockLock,
                   localVars, socketWire, sockLogVars, serLogVars, stopVars>>

\* SerialThread.write, "return self.serial.write(data)", and the lock's release.
\* Writing to a port whose device is gone raises.
SerialWriteSend(t) ==
    /\ pc[t] = "write"
    /\ wr[t].chan = "serial"
    /\ wr[t].stage = "in"
    /\ IF port = "open"
       THEN /\ serialWire' = Append(serialWire, wr[t].frame)
            /\ serialBy' = Append(serialBy, t)
            /\ pc' = [pc EXCEPT ![t] = wr[t].ok]
       ELSE /\ serialWire' = serialWire
            /\ serialBy' = serialBy
            /\ pc' = [pc EXCEPT ![t] = wr[t].err]
    /\ serLock' = "free"
    /\ wr' = [wr EXCEPT ![t] = NoWrite]
    /\ UNCHANGED <<mainVars, peerVars, aliveVars, mediaVars, sockLock,
                   localVars, socketWire, sockLogVars, serLogVars, stopVars>>

\* SocketThread.write, "with self._lock:"
SocketWriteEnter(t) ==
    /\ pc[t] = "write"
    /\ wr[t].chan = "socket"
    /\ wr[t].stage = "want"
    /\ LockAvailable(sockLock)
    /\ sockLock' = t
    /\ wr' = [wr EXCEPT ![t].stage = "in"]
    /\ UNCHANGED <<mainVars, pc, peerVars, aliveVars, mediaVars, serLock,
                   localVars, wireVars, sockLogVars, serLogVars, stopVars>>

\* SocketThread.write, "return self.socket.send(data)", and the lock's release.
\* self.socket is None before SocketThread.run creates it (AttributeError); a
\* socket that is not connected, or closed, raises OSError.
SocketWriteSend(t) ==
    /\ pc[t] = "write"
    /\ wr[t].chan = "socket"
    /\ wr[t].stage = "in"
    /\ IF sock = "connected"
       THEN /\ socketWire' = Append(socketWire, wr[t].frame)
            /\ pc' = [pc EXCEPT ![t] = wr[t].ok]
       ELSE /\ socketWire' = socketWire
            /\ pc' = [pc EXCEPT ![t] = wr[t].err]
    /\ sockLock' = "free"
    /\ wr' = [wr EXCEPT ![t] = NoWrite]
    /\ UNCHANGED <<mainVars, peerVars, aliveVars, mediaVars, serLock,
                   localVars, serialWire, serialBy, sockLogVars, serLogVars,
                   stopVars>>

\* ------------------------------------------------------- SocketThread.stop

\* A thread enters SocketThread.stop().
EnterSocketStop(t) ==
    /\ pc' = [pc EXCEPT ![t] = "stop_alive"]
    /\ sockStops' = sockStops + 1
    /\ stopNo' = [stopNo EXCEPT ![t] = sockStops + 1]

\* self.alive = False
SocketStopAlive(t) ==
    /\ pc[t] = "stop_alive"
    /\ sockAlive' = FALSE
    /\ pc' = [pc EXCEPT ![t] = "stop_notify"]
    /\ UNCHANGED <<mainVars, wr, peerVars, serAlive, mediaVars, lockVars,
                   localVars, wireVars, sockLogVars, serLogVars, stopVars>>

\* if self.serial_manager.alive: self.serial_manager.write("internetDisconnected")
SocketStopNotify(t) ==
    /\ pc[t] = "stop_notify"
    /\ IF serAlive
       THEN Call(t, "serial", internetDisconnected, "stop_close", "stop_raise")
       ELSE /\ pc' = [pc EXCEPT ![t] = "stop_close"]
            /\ wr' = wr
    /\ UNCHANGED <<mainVars, peerVars, aliveVars, mediaVars, lockVars,
                   localVars, wireVars, sockLogVars, serLogVars, stopVars>>

\* self.socket.close(): AttributeError while self.socket is None.
SocketStopClose(t) ==
    /\ pc[t] = "stop_close"
    /\ IF sock = "None"
       THEN /\ pc' = [pc EXCEPT ![t] = "stop_raise"]
            /\ sock' = sock
       ELSE /\ pc' = [pc EXCEPT ![t] = "stop_join"]
            /\ sock' = "closed"
    /\ UNCHANGED <<mainVars, wr, peerVars, aliveVars, port, device, lockVars,
                   localVars, wireVars, sockLogVars, serLogVars, stopVars>>

\* A join that returns to its caller also when the thread joins itself: run
\* goes on after the self.stop() of line 96, at the test of line 98.
SocketStopJoinReturns(t) ==
    /\ pc[t] = "stop_join"
    /\ IF t = "sock"
       THEN pc' = [pc EXCEPT ![t] = "check"]
       ELSE /\ Terminated("sock")
            /\ pc' = [pc EXCEPT ![t] = "idle"]
    /\ UNCHANGED <<mainVars, wr, peerVars, aliveVars, mediaVars, lockVars,
                   localVars, wireVars, sockLogVars, serLogVars, stopVars>>

\* self.join(): Thread.join raises RuntimeError when called by the thread
\* itself ("cannot join current thread"); otherwise it waits for the thread.
SocketStopJoin(t) ==
    /\ pc[t] = "stop_join"
    /\ IF t = "sock"
       THEN pc' = [pc EXCEPT ![t] = "stop_raise"]
       ELSE /\ Terminated("sock")
            /\ pc' = [pc EXCEPT ![t] = "idle"]
    /\ UNCHANGED <<mainVars, wr, peerVars, aliveVars, mediaVars, lockVars,
                   localVars, wireVars, sockLogVars, serLogVars, stopVars>>

\* stop() raised: nothing in SocketThread.run catches it, so the Socket Channel
\* thread ends; an outside caller gets the exception.
SocketStopRaise(t) ==
    /\ pc[t] = "stop_raise"
    /\ pc' = [pc EXCEPT ![t] = IF t = "sock" THEN "crashed" ELSE "idle"]
    /\ stopRaised' = (stopRaised \/ stopNo[t] >= 2)
    /\ UNCHANGED <<mainVars, wr, peerVars, aliveVars, mediaVars, lockVars,
                   localVars, wireVars, sockLogVars, serLogVars,
                   sockStops, serStops, stopNo, extCalls>>

\* -------------------------------------------------------- SocketThread.run

SocketInputs == {world, cafe, DISCONNECT, badUtf8}

\* while self.serial_manager is None: pass
SockWaitPeer ==
    /\ pc["sock"] = "wait_peer"
    /\ serial_manager # "None"
    /\ pc' = [pc EXCEPT !["sock"] = "create"]
    /\ UNCHANGED <<mainVars, wr, peerVars, aliveVars, mediaVars, lockVars,
                   localVars, wireVars, sockLogVars, serLogVars, stopVars>>

\* self.socket = socket.socket(...); self.socket.settimeout(10)
SockCreate ==
    /\ pc["sock"] = "create"
    /\ sock' = "created"
    /\ pc' = [pc EXCEPT !["sock"] = "connect"]
    /\ UNCHANGED <<mainVars, wr, peerVars, aliveVars, port, device, lockVars,
                   localVars, wireVars, sockLogVars, serLogVars, stopVars>>

\* A connect whose failure is swallowed: run goes on to alive = True.
SockConnectSwallow ==
    /\ pc["sock"] = "connect"
    /\ \E connected \in BOOLEAN :
          sock' = IF connected /\ sock = "created" THEN "connected" ELSE sock
    /\ pc' = [pc EXCEPT !["sock"] = "set_alive"]
    /\ UNCHANGED <<mainVars, wr, peerVars, aliveVars, port, device, lockVars,
                   localVars, wireVars, sockLogVars, serLogVars, stopVars>>

\* self.socket.connect(...): it connects, or raises (refused, timed out) and
\* nothing catches it.
SockConnect ==
    /\ pc["sock"] = "connect"
    /\ \E connected \in BOOLEAN :
          IF connected /\ sock = "created"
          THEN /\ sock' = "connected"
               /\ pc' = [pc EXCEPT !["sock"] = "set_alive"]
          ELSE /\ sock' = sock
               /\ pc' = [pc EXCEPT !["sock"] = "crashed"]
    /\ UNCHANGED <<mainVars, wr, peerVars, aliveVars, port, device, lockVars,
                   localVars, wireVars, sockLogVars, serLogVars, stopVars>>

\* self.alive = True
SockSetAlive ==
    /\ pc["sock"] = "set_alive"
    /\ sockAlive' = TRUE
    /\ pc' = [pc EXCEPT !["sock"] = "handshake"]
    /\ UNCHANGED <<mainVars, wr, peerVars, serAlive, mediaVars, lockVars,
                   localVars, wireVars, sockLogVars, serLogVars, stopVars>>

\* self.serial_manager.write("bridgeConnected\0".encode())
SockHandshake ==
    /\ pc["sock"] = "handshake"
    /\ Call("sock", "serial", bridgeConnected0, "loop", "crashed")
    /\ UNCHANGED <<mainVars, peerVars, aliveVars, mediaVars, lockVars,
                   localVars, wireVars, sockLogVars, serLogVars, stopVars>>

\* while self.alive:
SockLoop ==
    /\ pc["sock"] = "loop"
    /\ pc' = [pc EXCEPT !["sock"] = IF sockAlive THEN "recv" ELSE "done"]
    /\ UNCHANGED <<mainVars, wr, peerVars, aliveVars, mediaVars, lockVars,
                   localVars, wireVars, sockLogVars, serLogVars, stopVars>>

\* server_response = self.socket.recv(4096) timed out: continue
SockRecvTimeout ==
    /\ pc["sock"] = "recv"
    /\ sock = "connected"
    /\ pc' = [pc EXCEPT !["sock"] = "loop"]
    /\ server_response' = <<>>
    /\ UNCHANGED <<mainVars, wr, peerVars, aliveVars, mediaVars, lockVars,
                   data, wireVars, sockLogVars, serLogVars, stopVars>>

\* server_response = self.socket.recv(4096) returned a frame
SockRecvData ==
    /\ pc["sock"] = "recv"
    /\ sock = "connected"
    /\ Len(recvLog) < MaxRecv
    /\ \E frame \in SocketInputs :
          /\ server_response' = frame
          /\ recvLog' = Append(recvLog, frame)
          /\ sockEnd' = IF frame = DISCONNECT THEN "DISCONNECT" ELSE sockEnd
    /\ pc' = [pc EXCEPT !["sock"] = "check"]
    /\ UNCHANGED <<mainVars, wr, peerVars, aliveVars, mediaVars, lockVars,
                   data, wireVars, fwdLog, skipped, serLogVars, stopVars>>

\* server_response = self.socket.recv(4096) returned b"": the remote end closed
SockRecvEmpty ==
    /\ pc["sock"] = "recv"
    /\ sock = "connected"
    /\ server_response' = <<>>
    /\ sockEnd' = "empty"
    /\ pc' = [pc EXCEPT !["sock"] = "check"]
    /\ UNCHANGED <<mainVars, wr, peerVars, aliveVars, mediaVars, lockVars,
                   data, wireVars, recvLog, fwdLog, skipped, serLogVars, stopVars>>

\* self.socket.recv(4096) raised something other than a timeout (always so on
\* a closed socket): except Exception: self.stop()
SockRecvError ==
    /\ pc["sock"] = "recv"
    /\ server_response' = <<>>
    /\ sockEnd' = "error"
    /\ EnterSocketStop("sock")
    /\ UNCHANGED <<mainVars, wr, peerVars, aliveVars, mediaVars, lockVars,
                   data, wireVars, recvLog, fwdLog, skipped, serLogVars,
                   serStops, stopRaised, extCalls>>

\* if server_response is None or server_response == b"": self.stop()
SockCheck ==
    /\ pc["sock"] = "check"
    /\ IF server_response = <<>>
       THEN EnterSocketStop("sock")
       ELSE /\ pc' = [pc EXCEPT !["sock"] = "decode"]
            /\ UNCHANGED <<sockStops, stopNo>>
    /\ UNCHANGED <<mainVars, wr, peerVars, aliveVars, mediaVars, lockVars,
                   localVars, wireVars, sockLogVars, serLogVars,
                   serStops, stopRaised, extCalls>>

\* decoded_server_response = server_response.decode(): UnicodeDecodeError is
\* not caught.
SockDecode ==
    /\ pc["sock"] = "decode"
    /\ pc' = [pc EXCEPT !["sock"] =
                IF DecodeOk(server_response) THEN "forward" ELSE "crashed"]
    /\ UNCHANGED <<mainVars, wr, peerVars, aliveVars, mediaVars, lockVars,
                   localVars, wireVars, sockLogVars, serLogVars, stopVars>>

\* A forward that passes the frame on without its first byte.
SockForwardTail ==
    /\ pc["sock"] = "forward"
    /\ IF serAlive
       THEN /\ Call("sock", "serial", Tail(Encode(Decode(server_response))),
                    "after", "crashed")
            /\ fwdLog' = Append(fwdLog, Tail(Encode(Decode(server_response))))
            /\ skipped' = skipped
       ELSE /\ pc' = [pc EXCEPT !["sock"] = "after"]
            /\ skipped' = skipped + 1
            /\ UNCHANGED <<wr, fwdLog>>
    /\ UNCHANGED <<mainVars, peerVars, aliveVars, mediaVars, lockVars,
                   localVars, wireVars, recvLog, sockEnd, serLogVars, stopVars>>

\* if self.serial_manager.alive:
\*     self.serial_manager.write(decoded_server_response.encode())
SockForward ==
    /\ pc["sock"] = "forward"
    /\ IF serAlive
       THEN /\ Call("sock", "serial", Encode(Decode(server_response)),
                    "after", "crashed")
            /\ fwdLog' = Append(fwdLog, Encode(Decode(server_response)))
            /\ skipped' = skipped
       ELSE /\ pc' = [pc EXCEPT !["sock"] = "after"]
            /\ skipped' = skipped + 1
            /\ UNCHANGED <<wr, fwdLog>>
    /\ UNCHANGED <<mainVars, peerVars, aliveVars, mediaVars, lockVars,
                   localVars, wireVars, recvLog, sockEnd, serLogVars, stopVars>>

\* if decoded_server_response == "DISCONNECT": self.alive = False
SockAfter ==
    /\ pc["sock"] = "after"
    /\ sockAlive' = IF Decode(server_response) = DISCONNECT THEN FALSE ELSE sockAlive
    /\ pc' = [pc EXCEPT !["sock"] = "loop"]
    /\ UNCHANGED <<mainVars, wr, peerVars, serAlive, mediaVars, lockVars,
                   localVars, wireVars, sockLogVars, serLogVars, stopVars>>

SocketThreadRun ==
    \/ SockWaitPeer
    \/ SockCreate
    \/ SockConnect
    \/ SockSetAlive
    \/ SockHandshake
    \/ SockLoop
    \/ SockRecvTimeout
    \/ SockRecvData
    \/ SockRecvEmpty
    \/ SockRecvError
    \/ SockCheck
    \/ SockDecode
    \/ SockForward
    \/ SockAfter
    \/ SocketStopAlive("sock")
    \/ SocketStopNotify("sock")
    \/ SocketStopClose("sock")
    \/ SocketStopJoin("sock")
    \/ SocketStopRaise("sock")
    \/ SerialWriteEnter("sock")
    \/ SerialWriteSend("sock")

\* -------------------------------------------------------- SerialThread.run

hello0 == <<"a", "/", "0", xC3, xA9, NUL>>

SerialInputs == {hello0, badUtf8}

\* What a serial read can return in StripSpec: every text of at most MaxLen
\* characters, encoded, with and without a null terminator, and a frame that
\* is no valid UTF-8.
StripInputs ==
    LET texts == SeqsUpTo(Chars, MaxLen)
    IN ({Encode(P) : P \in texts} \cup {Encode(P) \o <<NUL>> : P \in texts}
        \cup {badUtf8}) \ {<<>>}

\* while self.alive and self.serial.is_open: ... self.alive = False
\* (nothing closes the port: close() has no caller, so is_open stays true)
SerLoop ==
    /\ pc["ser"] = "loop"
    /\ IF serAlive
       THEN /\ pc' = [pc EXCEPT !["ser"] = "read"]
            /\ serAlive' = serAlive
       ELSE /\ pc' = [pc EXCEPT !["ser"] = "done"]
            /\ serAlive' = FALSE
    /\ UNCHANGED <<mainVars, wr, peerVars, sockAlive, mediaVars, lockVars,
                   localVars, wireVars, sockLogVars, serLogVars, stopVars>>

\* data = self.serial.read(self.serial.in_waiting) timed out: "if data:" is false
SerReadTimeout ==
    /\ pc["ser"] = "read"
    /\ port = "open"
    /\ data' = <<>>
    /\ pc' = [pc EXCEPT !["ser"] = "loop"]
    /\ UNCHANGED <<mainVars, wr, peerVars, aliveVars, mediaVars, lockVars,
                   server_response, wireVars, sockLogVars, serLogVars, stopVars>>

\* data = self.serial.read(self.serial.in_waiting) returned bytes
SerReadData(inputs, limit) ==
    /\ pc["ser"] = "read"
    /\ port = "open"
    /\ nSerialReads < limit
    /\ \E d \in inputs : data' = d
    /\ nSerialReads' = nSerialReads + 1
    /\ pc' = [pc EXCEPT !["ser"] = "decode"]
    /\ UNCHANGED <<mainVars, wr, peerVars, aliveVars, mediaVars, lockVars,
                   server_response, wireVars, sockLogVars, nFail, stopVars>>

\* self.serial.read raised (the device was unplugged): except Exception
SerReadError ==
    /\ pc["ser"] = "read"
    /\ nFail < MaxFail
    /\ nFail' = nFail + 1
    /\ port' = "failed"
    /\ device' = FALSE
    /\ IF ENABLE_RECONNECT
       THEN /\ pc' = [pc EXCEPT !["ser"] = "reconnect"]
            /\ serAlive' = serAlive
       ELSE /\ pc' = [pc EXCEPT !["ser"] = "loop"]
            /\ serAlive' = FALSE
    /\ UNCHANGED <<mainVars, wr, peerVars, sockAlive, sock, lockVars,
                   localVars, wireVars, sockLogVars, nSerialReads, stopVars>>

\* The calculator is plugged in again.
DevicePlug ==
    /\ device = FALSE
    /\ device' = TRUE
    /\ UNCHANGED <<mainVars, pc, wr, peerVars, aliveVars, sock, port, lockVars,
                   localVars, wireVars, sockLogVars, serLogVars, stopVars>>

\* A reconnect that builds the channel anew, as __init__ does: fresh port,
\* peer reference None, alive True, a new unheld lock.
SerReconnectReinit ==
    /\ pc["ser"] = "reconnect"
    /\ device
    /\ port' = "open"
    /\ socket_manager' = "None"
    /\ serAlive' = TRUE
    /\ serLock' = "free"
    /\ pc' = [pc EXCEPT !["ser"] = "rehandshake"]
    /\ UNCHANGED <<mainVars, wr, serial_manager, sockAlive, sock, device,
                   sockLock, localVars, wireVars, sockLogVars, serLogVars,
                   stopVars>>

\* time.sleep(1); self.serial = serial.Serial(find_serial_port().device, ...):
\* find_serial_port returns once the device is listed; until then (and while
\* serial.Serial raises) the retry loop goes round without changing anything.
SerReconnectOpen ==
    /\ pc["ser"] = "reconnect"
    /\ device
    /\ port' = "open"
    /\ pc' = [pc EXCEPT !["ser"] = "rehandshake"]
    /\ UNCHANGED <<mainVars, wr, peerVars, aliveVars, sock, device, lockVars,
                   localVars, wireVars, sockLogVars, serLogVars, stopVars>>

\* A reconnect that resumes the read loop without the handshake.
SerReconnectNoHandshake ==
    /\ pc["ser"] = "rehandshake"
    /\ pc' = [pc EXCEPT !["ser"] = "loop"]
    /\ UNCHANGED <<mainVars, wr, peerVars, aliveVars, mediaVars, lockVars,
                   localVars, wireVars, sockLogVars, serLogVars, stopVars>>

\* self.write("bridgeConnected\0".encode()); break -- except Exception: pass
SerReconnectHandshake ==
    /\ pc["ser"] = "rehandshake"
    /\ Call("ser", "serial", bridgeConnected0, "loop", "reconnect")
    /\ UNCHANGED <<mainVars, peerVars, aliveVars, mediaVars, lockVars,
                   localVars, wireVars, sockLogVars, serLogVars, stopVars>>

\* decoded_data = data.decode().replace("/0", "").replace("\0", "")
\* self.socket_manager.write(decoded_data.encode())
\* Neither UnicodeDecodeError nor what write raises is caught.
SerForward ==
    /\ pc["ser"] = "decode"
    /\ IF DecodeOk(data) /\ socket_manager = "set"
       THEN Call("ser", "socket", Encode(Strip(Decode(data))), "loop", "crashed")
       ELSE /\ pc' = [pc EXCEPT !["ser"] = "crashed"]
            /\ wr' = wr
    /\ UNCHANGED <<mainVars, peerVars, aliveVars, mediaVars, lockVars,
                   localVars, wireVars, sockLogVars, serLogVars, stopVars>>

SerialThreadRun ==
    \/ SerLoop
    \/ SerReadTimeout
    \/ SerReadData(SerialInputs, MaxSerialReads)
    \/ SerReadError
    \/ SerReconnectOpen
    \/ SerReconnectHandshake
    \/ SerForward
    \/ SerialWriteEnter("ser")
    \/ SerialWriteSend("ser")
    \/ SocketWriteEnter("ser")
    \/ SocketWriteSend("ser")

\* ------------------------------------------------- an outside caller of stop()

\* Both channel threads have been started.
Started == mainPc \in {"join_serial", "join_socket", "exited"}

\* socket_thread.stop() called from outside the two channel threads
ExtCallSocketStop ==
    /\ pc["ext"] = "idle"
    /\ Started
    /\ extCalls < MaxStopCalls
    /\ extCalls' = extCalls + 1
    /\ EnterSocketStop("ext")
    /\ UNCHANGED <<mainVars, wr, peerVars, aliveVars, mediaVars, lockVars,
                   localVars, wireVars, sockLogVars, serLogVars,
                   serStops, stopRaised>>

\* serial_thread.stop() called from outside the two channel threads
ExtCallSerialStop ==
    /\ pc["ext"] = "idle"
    /\ Started
    /\ extCalls < MaxStopCalls
    /\ extCalls' = extCalls + 1
    /\ serStops' = serStops + 1
    /\ pc' = [pc EXCEPT !["ext"] = "ser_stop"]
    /\ UNCHANGED <<mainVars, wr, peerVars, aliveVars, mediaVars, lockVars,
                   localVars, wireVars, sockLogVars, serLogVars,
                   sockStops, stopRaised, stopNo>>

\* SerialThread.stop: self.alive = False; cancel_read(); self.join(2), which
\* returns after two seconds at the latest.
SerialStop(t) ==
    /\ pc[t] = "ser_stop"
    /\ serAlive' = FALSE
    /\ pc' = [pc EXCEPT ![t] = "idle"]
    /\ UNCHANGED <<mainVars, wr, peerVars, sockAlive, mediaVars, lockVars,
                   localVars, wireVars, sockLogVars, serLogVars, stopVars>>

ExtCaller ==
    \/ ExtCallSocketStop
    \/ ExtCallSerialStop
    \/ SerialStop("ext")
    \/ SocketStopAlive("ext")
    \/ SocketStopNotify("ext")
    \/ SocketStopClose("ext")
    \/ SocketStopJoin("ext")
    \/ SocketStopRaise("ext")
    \/ SerialWriteEnter("ext")
    \/ SerialWriteSend("ext")

\* ---------------------------------------------------------- specifications

Next == Main \/ SocketThreadRun \/ SerialThreadRun \/ DevicePlug

\* A run of main().
Spec == Init /\ [][Next]_vars

\* A run of main() in which every thread that can take a step eventually does.
FairSpec ==
    /\ Init
    /\ [][Next]_vars
    /\ WF_vars(Main)
    /\ WF_vars(SocketThreadRun)
    /\ WF_vars(SerialThreadRun)

NextStop == Next \/ ExtCaller

\* A run of main() during which an outside caller calls stop().
SpecStop == Init /\ [][NextStop]_vars

\* The relay is up: both threads run, the socket is connected, the handshake
\* is written, and the Serial Channel is about to read.
StripInit ==
    /\ mainPc = "join_serial"
    /\ pc = [t \in Threads |->
               IF t = "ext" THEN "idle" ELSE IF t = "ser" THEN "read" ELSE "recv"]
    /\ wr = [t \in Threads |-> NoWrite]
    /\ serial_manager = "set"
    /\ socket_manager = "set"
    /\ sockAlive = TRUE
    /\ serAlive = TRUE
    /\ sock = "connected"
    /\ port = "open"
    /\ device = TRUE
    /\ serLock = "free"
    /\ sockLock = "free"
    /\ data = <<>>
    /\ server_response = <<>>
    /\ serialWire = <<bridgeConnected0>>
    /\ socketWire = <<>>
    /\ serialBy = <<"sock">>
    /\ recvLog = <<>>
    /\ fwdLog = <<>>
    /\ nSerialReads = 0
    /\ nFail = 0
    /\ sockEnd = "none"
    /\ sockStops = 0
    /\ serStops = 0
    /\ stopRaised = FALSE
    /\ skipped = 0
    /\ stopNo = [t \in Threads |-> 0]
    /\ extCalls = 0

StripNext ==
    \/ SerLoop
    \/ SerReadData(StripInputs, 1)
    \/ SerForward
    \/ SocketWriteEnter("ser")
    \/ SocketWriteSend("ser")

\* One serial read of the running relay, over every bounded input.
StripSpec == StripInit /\ [][StripNext]_vars

\* SocketThread.run while the server stays silent: start-up, the handshake and
\* a receive loop in which every recv times out.
SocketThreadQuiet ==
    \/ SockWaitPeer
    \/ SockCreate
    \/ SockConnect
    \/ SockSetAlive
    \/ SockHandshake
    \/ SockLoop
    \/ SockRecvTimeout
    \/ SerialWriteEnter("sock")
    \/ SerialWriteSend("sock")

QuietNext == Main \/ SocketThreadQuiet \/ SerialThreadRun \/ DevicePlug

\* A run of main() against a silent server, in which every thread that can
\* take a step eventually does.
QuietSpec ==
    /\ Init
    /\ [][QuietNext]_vars
    /\ WF_vars(Main)
    /\ WF_vars(SocketThreadQuiet)
    /\ WF_vars(SerialThreadRun)

\* serial_thread.stop() called from outside the two channel threads
SerialStopCaller ==
    \/ ExtCallSerialStop
    \/ SerialStop("ext")

QuietStopNext == QuietNext \/ SerialStopCaller

\* A fair run of main() against a silent server during which an outside
\* caller may call stop() on the Serial Channel; a stop() under way completes.
QuietStopSpec ==
    /\ Init
    /\ [][QuietStopNext]_vars
    /\ WF_vars(Main)
    /\ WF_vars(SocketThreadQuiet)
    /\ WF_vars(SerialThreadRun)
    /\ WF_vars(SerialStop("ext"))

\* ------------------------------------------------------------------ claims

Frames(wire, frame) == Count(wire, frame)

\* C1: SerialThread.run never calls SocketThread.write while the Socket
\* Channel's socket is not yet created and connected.
C1_NoWriteBeforeSocketExists ==
    (wr["ser"].chan = "socket" /\ wr["ser"].stage # "idle")
        => sock \notin {"None", "created"}

\* The Socket Channel is writing to the Serial Channel or processing a frame
\* it received.
SockUsesPeer ==
    \/ wr["sock"].stage # "idle"
    \/ pc["sock"] \in {"check", "decode", "forward", "after"}

\* The Serial Channel is processing data it read.
SerUsesPeer ==
    \/ pc["ser"] = "decode"
    \/ (wr["ser"].chan = "socket" /\ wr["ser"].stage # "idle")

\* C2: the Socket Channel's writes to the Serial Channel and every read-loop
\* iteration that processes incoming data happen only after both peer
\* references have been assigned.
C2_PeersWiredBeforeUse ==
    (SockUsesPeer \/ SerUsesPeer)
        => (serial_manager = "set" /\ socket_manager = "set")

\* Both channels are at work at once: the Serial Channel processes data it
\* read while the Socket Channel writes its handshake.
C2_Witness ==
    /\ pc["ser"] = "decode"
    /\ wr["sock"].frame = bridgeConnected0
    /\ wr["sock"].stage = "in"
    /\ serial_manager = "set"
    /\ socket_manager = "set"

\* C3: however often stop() is called, at most one internetDisconnected frame
\* is written to the serial side, and no stop() call after a channel's first
\* raises.
C3_StopIdempotent ==
    /\ Frames(serialWire, internetDisconnected) <= 1
    /\ ~stopRaised

\* C4: once the socket read loop has met the remote close (zero bytes) or a
\* read error while the Serial Channel is alive, and the Socket Channel thread
\* has ended, stop() was called exactly once and exactly one
\* internetDisconnected frame was written to the serial side.
C4_RemoteCloseOneFrame ==
    (sockEnd \in {"empty", "error"} /\ serAlive /\ Terminated("sock"))
        => /\ sockStops = 1
           /\ Frames(serialWire, internetDisconnected) = 1

\* C5: once the socket read loop has received DISCONNECT and the Socket
\* Channel thread has ended, it ended by leaving its loop with alive false,
\* stop() was never called and no internetDisconnected frame was written.
C5_DisconnectNoNotify ==
    (sockEnd = "DISCONNECT" /\ Terminated("sock"))
        => /\ pc["sock"] = "done"
           /\ ~sockAlive
           /\ sockStops = 0
           /\ Frames(serialWire, internetDisconnected) = 0

\* The Serial Channel gets no input and meets no failure: its reads time out.
SerIdle == pc["ser"] \in {"loop", "read"}

\* C6: if the socket read loop has received DISCONNECT and from then on the
\* Serial Channel gets no input and meets no failure, main() eventually
\* returns from both joins and exits with code 0.
C6_DisconnectTerminates ==
    <>[](sockEnd = "DISCONNECT" /\ SerIdle) => <>(mainPc = "exited")

\* C7: no write() that was called while its channel's alive flag was false
\* gets to the medium handle.
C7_WritesFailFast ==
    \A t \in Threads : wr[t].stage = "in" => wr[t].aliveAtCall

\* The threads inside channel c's medium write.
Inside(c) == {t \in Threads : wr[t].chan = c /\ wr[t].stage = "in"}

\* C8: at most one thread at a time is inside a channel's medium write, so
\* the bytes of two writes to the same channel never interleave.
C8_WriteSerialization ==
    \A c \in {"serial", "socket"} : Cardinality(Inside(c)) <= 1

\* One thread is inside the serial port's write while another waits for the
\* lock with its own frame.
C8_Witness ==
    \E t, u \in Threads :
        /\ t # u
        /\ wr[t].chan = "serial" /\ wr[t].stage = "in"
        /\ wr[u].chan = "serial" /\ wr[u].stage = "want"

Texts == SeqsUpTo(Chars, MaxLen)

HasNul(P) == \E i \in 1..Len(P) : P[i] = NUL

HasSlashZero(P) == \E i \in 1..(Len(P) - 1) : P[i] = "/" /\ P[i + 1] = "0"

\* The Serial Channel passes a frame to the Socket Channel's write.
SerForwarding == wr["ser"].chan = "socket" /\ wr["ser"].stage # "idle"

\* The serial read returned P, optionally followed by one null terminator.
ReadOf(P) == data = Encode(P) \/ data = Encode(P) \o <<NUL>>

\* C9 as stated: for every payload P without a null byte, when the serial
\* read returns P, optionally followed by a null terminator, the value passed
\* to the Socket Channel's write is exactly P.
C9_RoundTripAnyPayload ==
    \A P \in Texts :
        (SerForwarding /\ ~HasNul(P) /\ ReadOf(P)) => wr["ser"].frame = Encode(P)

\* C9, amended: the same for every payload P that contains neither a null
\* byte nor the two-character text "/0".
C9_RoundTrip ==
    \A P \in Texts :
        (SerForwarding /\ ~HasNul(P) /\ ~HasSlashZero(P) /\ ReadOf(P))
            => wr["ser"].frame = Encode(P)

\* A null-terminated payload with a two-byte character is forwarded without
\* its terminator.
C9_Witness ==
    /\ SerForwarding
    /\ data = <<"a", xC3, xA9, NUL>>
    /\ wr["ser"].frame = <<"a", xC3, xA9>>

\* A received frame is still being processed by SocketThread.run.
Pending ==
    pc["sock"] \in {"check", "decode", "forward"} /\ server_response # <<>>

\* The received frames SocketThread.run has dealt with.
Processed ==
    IF Pending THEN SubSeq(recvLog, 1, Len(recvLog) - 1) ELSE recvLog

NotDisconnect(frame) == frame # DISCONNECT

IsPayload(frame) == DecodeOk(frame) /\ frame # DISCONNECT

\* C10: while the Serial Channel is alive, the payloads passed to the Serial
\* Channel's write are exactly the payloads received from the socket (the
\* frames that are UTF-8 text, other than DISCONNECT), unmodified, once each
\* and in the order received.
C10_Passthrough ==
    skipped = 0
        => SelectSeq(fwdLog, NotDisconnect) = SelectSeq(Processed, IsPayload)

\* Two payloads were received and passed on in order.
C10_Witness ==
    /\ recvLog = <<cafe, world>>
    /\ fwdLog = <<cafe, world>>
    /\ serialWire = <<bridgeConnected0, cafe, world>>


\* C11: the bytes DISCONNECT are never passed to the Serial Channel's write.
C11_DisconnectNotRelayed ==
    /\ Frames(fwdLog, DISCONNECT) = 0
    /\ \A t \in Threads : wr[t].chan = "serial" => wr[t].frame # DISCONNECT

\* C12: no channel thread ends because the bytes it read are no valid UTF-8;
\* a thread that ended through an exception had decoded what it last read.
C12_DecodeFailureNotFatal ==
    /\ pc["sock"] = "crashed" => DecodeOk(server_response)
    /\ pc["ser"] = "crashed" => DecodeOk(data)


\* The Serial Channel is in its reconnect loop and the device is listed again.
Rediscovered == pc["ser"] = "reconnect" /\ device

\* A bridgeConnected frame is passed to the Socket Channel's write.
HandshakeToSocket ==
    \E t \in Threads : wr[t].chan = "socket" /\ wr[t].frame = bridgeConnected0

\* The Serial Channel writes its bridgeConnected frame to the reopened port.
HandshakeToSerial ==
    /\ wr["ser"].chan = "serial"
    /\ wr["ser"].frame = bridgeConnected0
    /\ wr["ser"].stage = "in"
    /\ port = "open"

\* C13 as stated: after a serial failure, once the device is listed again, a
\* fresh bridgeConnected frame is eventually passed to the Socket Channel's
\* write.
C13_ReconnectHandshakeToSocket == Rediscovered ~> HandshakeToSocket

\* C13, amended: after a serial failure, once the device is listed again, the
\* Serial Channel eventually reopens the port and writes a fresh
\* bridgeConnected frame to it (the serial side), and then resumes its read
\* loop.
C13_ReconnectConverges ==
    /\ Rediscovered ~> HandshakeToSerial
    /\ HandshakeToSerial ~> (pc["ser"] = "read" /\ port = "open")

\* After a reconnect, with the second bridgeConnected frame on the serial
\* port, serial data is again forwarded to the Socket Channel.
C13_Witness ==
    /\ nFail = 1
    /\ port = "open"
    /\ Len(serialBy) >= 1
    /\ serialBy[Len(serialBy)] = "ser"
    /\ serialWire[Len(serialWire)] = bridgeConnected0
    /\ SerForwarding


\* The positions of serialWire written by the Socket Channel's thread.
BySock == {i \in 1..Len(serialWire) : serialBy[i] = "sock"}

SockWriting == wr["sock"].chan = "serial" /\ wr["sock"].stage # "idle"

\* C14: the Socket Channel's thread hands bridgeConnected to the Serial
\* Channel's write only with its socket connected and alive true, and sends it
\* holding the serial write lock; whenever that thread writes or has written
\* any other frame to the serial side, its bridgeConnected frame is already on
\* the wire ahead of it; while the socket was never connected, no frame of the
\* Socket Channel's thread is on the wire or being written.
C14_HandshakeOrdering ==
    /\ (SockWriting /\ wr["sock"].frame = bridgeConnected0)
          => (sock = "connected" /\ sockAlive)
    /\ (SockWriting /\ wr["sock"].stage = "in") => serLock = "sock"
    /\ (SockWriting /\ wr["sock"].frame # bridgeConnected0)
          => \E j \in BySock : serialWire[j] = bridgeConnected0
    /\ \A i \in BySock :
          serialWire[i] # bridgeConnected0
             => \E j \in BySock : j < i /\ serialWire[j] = bridgeConnected0
    /\ sock \in {"None", "created"} => (BySock = {} /\ ~SockWriting)

C14_Witness ==
    /\ Len(serialWire) >= 2
    /\ serialBy[1] = "sock" /\ serialWire[1] = bridgeConnected0
    /\ serialBy[2] = "sock" /\ serialWire[2] = world


\* Thread t is inside the Serial Channel's write, about to send on the open
\* port a frame that came from the Socket Channel: internetDisconnected or a
\* payload received from the socket.
SendingSocketOriginated(t) ==
    /\ wr[t].chan = "serial"
    /\ wr[t].stage = "in"
    /\ wr[t].frame # bridgeConnected0
    /\ port = "open"

\* C15: no internetDisconnected frame and no payload received from the socket
\* is sent on the serial port while the Serial Channel's alive flag is false.
C15_NoWriteToDeadPeer ==
    \A t \in {"sock", "ext"} : SendingSocketOriginated(t) => serAlive


\* SocketThread.run died of the exception raised by the Serial Channel's write
\* while forwarding a received payload (line 109): it is dead with alive still
\* true (stop() never ran) after a recv whose payload decoded.
SockDiedForwarding ==
    /\ pc["sock"] = "crashed"
    /\ sockAlive
    /\ recvLog # <<>>
    /\ DecodeOk(server_response)

\* SerialThread.run died of the exception raised by the Socket Channel's write
\* while forwarding a read payload (line 189): it is dead after a read whose
\* payload decoded.
SerDiedForwarding ==
    /\ pc["ser"] = "crashed"
    /\ socket_manager = "set"
    /\ DecodeOk(data)

\* C16: a failure of the peer's medium met while forwarding never ends the
\* forwarding channel's thread through an unhandled exception.
C16_ForwardFailureHandled == ~SockDiedForwarding /\ ~SerDiedForwarding


\* stop() has been called on the Serial Channel and has set alive to false.
SerialStopped == serStops > 0 /\ ~serAlive

\* C17: in every behaviour in which stop() is called on the Serial Channel,
\* the Serial Channel's thread eventually terminates.
C17_SerialStopTerminates == SerialStopped ~> Terminated("ser")


\* A step of the Serial Channel's thread inside one round of its reconnect:
\* reopening the port (167/169) or the handshake write on it (170).
InReconnect ==
    \/ pc["ser"] \in {"reconnect", "rehandshake"}
    \/ pc["ser"] = "write" /\ wr["ser"].chan = "serial"

ReconnectStep ==
    /\ InReconnect
    /\ pc'["ser"] # pc["ser"] \/ wr'["ser"] # wr["ser"]

\* C18: a step of the Serial Channel's reconnect leaves its peer reference, its
\* alive flag, and all state of the Socket Channel unchanged, and its write lock
\* is only taken and released by its own handshake write; the step that
\* reopens the port changes nothing but the port handle.
C18_ReconnectFrame ==
    [][ReconnectStep =>
          /\ socket_manager' = socket_manager
          /\ serAlive' = serAlive
          /\ \/ serLock' = serLock
             \/ serLock = "free" /\ serLock' = "ser"
             \/ serLock = "ser" /\ serLock' = "free"
          /\ pc'["sock"] = pc["sock"]
          /\ wr'["sock"] = wr["sock"]
          /\ UNCHANGED <<serial_manager, sockAlive, sock, sockLock,
                         server_response, socketWire, sockLogVars>>
          /\ pc["ser"] = "reconnect"
                => UNCHANGED <<serLock, wr, wireVars, data, serLogVars>>
    ]_vars

\* The port was reopened while the Socket Channel's thread held the serial
\* write lock.
C18_Witness ==
    /\ nFail >= 1
    /\ pc["ser"] = "rehandshake"
    /\ port = "open"
    /\ serLock = "sock"
    /\ sockAlive


\* Thread t waits for the write lock of channel c.
Wants(t, c) == wr[t].chan = c /\ wr[t].stage = "want"

\* No thread holds one channel's write lock while it holds or waits for the
\* other's, and a held lock belongs to a thread inside that channel's write.
NoHoldAndWait ==
    \A t \in Threads :
        /\ serLock = t => (sockLock # t /\ ~Wants(t, "socket") /\ t \in Inside("serial"))
        /\ sockLock = t => (serLock # t /\ ~Wants(t, "serial") /\ t \in Inside("socket"))

\* No two threads each wait for a lock the other holds.
NoCircularWait ==
    ~ \E t, u \in Threads :
        /\ t # u
        /\ serLock = t /\ Wants(t, "socket")
        /\ sockLock = u /\ Wants(u, "serial")

\* C19: no thread holds one channel's write lock while holding or waiting for
\* the other's, no two threads wait for each other's lock, and every write()
\* a channel thread starts eventually gets its lock and returns.
C19_DeadlockFree ==
    /\ [](NoHoldAndWait /\ NoCircularWait)
    /\ \A t \in {"ser", "sock"} :
          (wr[t].stage = "want") ~> (wr[t].stage = "idle")

\* Both locks are held at once, each by the other channel's thread: the Serial
\* Channel's thread is inside the socket write and the Socket Channel's thread
\* inside the serial write.
C19_Witness == sockLock = "ser" /\ serLock = "sock"


\* The positions of serialWire holding an internetDisconnected frame written
\* by the Socket Channel's thread.
Notices == {i \in BySock : serialWire[i] = internetDisconnected}

\* C20: once the Socket Channel's thread has written internetDisconnected to
\* the serial side, that frame is the last one it writes there, it is inside
\* no further serial write, and its alive flag is false.
C20_NothingAfterNotice ==
    Notices # {} =>
        /\ \A i \in Notices : \A j \in BySock : j <= i
        /\ ~SockWriting
        /\ ~sockAlive

C20_Witness ==
    /\ Notices # {}
    /\ Terminated("sock")
    /\ Len(serialWire) >= 3

====
